---- MODULE Spec2Model ----
(***************************************************************************)
(* Model of the static-site build engine of package web: the configuration *)
(* queue drained by New, the registries kept by Site, and the phases of    *)
(* Site.Build (reset, commands, assets, public files, render).             *)
(*                                                                         *)
(* Strings that the code takes apart (paths, file names, digests) are      *)
(* sequences of one-character strings; file contents are opaque byte       *)
(* strings.  Configurers, renderers, shell commands and the operating      *)
(* system are the environment: what they do is drawn from small sets.      *)
(***************************************************************************)
EXTENDS Integers, Sequences, FiniteSets, TLC

VARIABLES
    configurers,  \* Site.configurers: the pending configuration steps
    renderers,    \* Site.renderers: output path -> renderer
    assets,       \* Site.assets: asset name -> fingerprinted relative path
    commands,     \* Site.commands: shell commands in registration order
    newpc,        \* position of New: "loop", "step", "returned", "failed"
    active,       \* the configurer whose Configure is executing (0: none)
    created,      \* number of configurers ever enqueued (they are 1..created)
    gen,          \* history: configurer -> generation (the initial one is 0)
    invoked,      \* history: configurers in the order New invoked them
    failedStep,   \* history: the configurer that returned an error (0: none)
    runCalls,     \* history: the arguments of the calls of Site.Run, in order
    fs,           \* the file system: [dirs: set of paths, files: path -> bytes]
    buildpc,      \* position of Build: "idle", "remove", "mkdir", "commands",
                  \* "assets", "public", "render", "returned", "panicked"
    ci,           \* runCommands: index of the command of this iteration
    running,      \* indices of the commands whose subprocess has not exited
    walk,         \* filepath.Walk: the entries still to visit
    todo,         \* the range over s.renderers: paths still to visit
    result,       \* what Build returned: NoResult, Nil or an error
    builds,       \* number of calls of Build so far
    trace,        \* history: what the current Build has done, in order
    stale,        \* history: files under the output dir when Build was called
    written,      \* history: files the current Build created
    walked,       \* history: regular files under the assets dir at copyAssets
    prev,         \* history: the Site and the files when Build was last called
    replaced,     \* history: a call of Site.Render gave a path another renderer
    lastRender    \* history: path -> renderer of the last call of Site.Render

siteVars == <<configurers, renderers, assets, commands>>
newVars == <<newpc, active, created, gen, invoked, failedStep, runCalls,
             replaced, lastRender>>
buildVars == <<fs, buildpc, ci, running, walk, todo, result, builds, trace,
               stale, written, walked, prev>>
vars == <<siteVars, newVars, buildVars>>

(***************************************************************************)
(* Bounds                                                                  *)
(***************************************************************************)
\* configurers ever enqueued in one run of New, the initial one included
MaxSteps == 4
\* commands registered on one Site
MaxCmds == 2
\* calls of Build on one Site
MaxBuilds == 2

\* the shell command strings configurers may register
Cmds == {"c1", "c2"}
\* the renderers configurers may register
Renderers == {"r1", "r2"}
\* the output paths configurers may register renderers for
RenderPaths == {<<"i">>, <<"a", "/", "b">>}

Empty == [x \in {} |-> x]

\* f with key k set to v (a Go map assignment m[k] = v)
MapSet(f, k, v) == [x \in (DOMAIN f) \cup {k} |-> IF x = k THEN v ELSE f[x]]

(***************************************************************************)
(* Strings and paths (package strings, package path/filepath)              *)
(***************************************************************************)
Slash == <<"/">>
Dot == <<".">>

\* Site.OutputDir, Site.PublicDir, Site.AssetsDir as New sets them
OutputDir == <<"o", "u", "t", "p", "u", "t">>
PublicDir == <<"p", "u", "b", "l", "i", "c">>
AssetsDir == <<"a", "s", "s", "e", "t", "s">>

\* strings.LastIndex(s, c) for a one-character c, counted from 1; 0: absent
\* (Go counts from 0 and answers -1)
RECURSIVE LastIndexFrom(_, _, _)
LastIndexFrom(s, c, i) ==
    IF i = 0 THEN 0
    ELSE IF s[i] = c THEN i
    ELSE LastIndexFrom(s, c, i - 1)

LastIndex(s, c) == LastIndexFrom(s, c, Len(s))

HasPrefix(s, prefix) ==
    /\ Len(prefix) <= Len(s)
    /\ SubSeq(s, 1, Len(prefix)) = prefix

\* strings.TrimPrefix
TrimPrefix(s, prefix) ==
    IF HasPrefix(s, prefix) THEN SubSeq(s, Len(prefix) + 1, Len(s)) ELSE s

\* filepath.Base, for the clean slash-separated paths Walk produces
Base(path) == SubSeq(path, LastIndex(path, "/") + 1, Len(path))

\* filepath.Dir, for the same paths: "." when there is no slash
Dir(path) ==
    IF LastIndex(path, "/") = 0 THEN Dot
    ELSE SubSeq(path, 1, LastIndex(path, "/") - 1)

\* filepath.Join of two clean elements: empty and "." elements vanish
Join(a, b) ==
    IF a = <<>> \/ a = Dot THEN b
    ELSE IF b = <<>> \/ b = Dot THEN a
    ELSE a \o Slash \o b

\* the byte order of the characters paths are made of ("/" sorts first: an
\* entry of a directory is visited before the directory's later siblings)
Alphabet ==
    <<"/", ".", "0", "1", "2", "3", "4", "5", "6", "7", "8", "9",
      "a", "b", "c", "d", "e", "f", "g", "h", "i", "j", "k", "l", "m",
      "n", "o", "p", "q", "r", "s", "t", "u", "v", "w", "x", "y", "z">>

Rank(c) == CHOOSE i \in 1..Len(Alphabet) : Alphabet[i] = c

\* p is visited before q by filepath.Walk (lexical order, depth first)
RECURSIVE WalkBefore(_, _)
WalkBefore(p, q) ==
    IF p = <<>> THEN q # <<>>
    ELSE IF q = <<>> THEN FALSE
    ELSE IF Head(p) = Head(q) THEN WalkBefore(Tail(p), Tail(q))
    ELSE Rank(Head(p)) < Rank(Head(q))

\* the paths of S in the order filepath.Walk visits them
RECURSIVE WalkOrder(_)
WalkOrder(S) ==
    IF S = {} THEN <<>>
    ELSE LET first == CHOOSE p \in S : \A q \in S \ {p} : WalkBefore(p, q)
         IN  <<first>> \o WalkOrder(S \ {first})

(***************************************************************************)
(* The file system (package os)                                            *)
(***************************************************************************)
\* path is root or lies below it
IsUnder(path, root) == path = root \/ HasPrefix(path, root \o Slash)

\* path and the directories above it, up to the working directory
RECURSIVE Ancestors(_)
Ancestors(path) ==
    IF path = Dot \/ path = <<>> THEN {}
    ELSE {path} \cup Ancestors(Dir(path))

IsFile(f, path) == path \in DOMAIN f.files
IsDirectory(f, path) == path \in f.dirs

\* os.Stat succeeds
Exists(f, path) == IsFile(f, path) \/ IsDirectory(f, path)

\* os.RemoveAll: path and everything below it are gone
RemoveAll(f, root) ==
    [dirs  |-> {d \in f.dirs : ~IsUnder(d, root)},
     files |-> [p \in {q \in DOMAIN f.files : ~IsUnder(q, root)} |-> f.files[p]]]

\* os.MkdirAll can succeed: no file is in the way
CanMkdirAll(f, path) == \A d \in Ancestors(path) : ~IsFile(f, d)

\* os.MkdirAll: the directory and its missing parents exist afterwards
MkdirAll(f, path) == [f EXCEPT !.dirs = @ \cup Ancestors(path)]

\* os.Create / os.WriteFile can succeed: the parent exists, no directory is
\* in the way
CanCreate(f, path) ==
    /\ Dir(path) = Dot \/ IsDirectory(f, Dir(path))
    /\ ~IsDirectory(f, path)

\* os.WriteFile, and os.Create followed by writes: the file holds data
WriteFile(f, path, data) == [f EXCEPT !.files = MapSet(@, path, data)]

\* the files below root
FilesUnder(f, root) == {p \in DOMAIN f.files : IsUnder(p, root)}

\* the entries filepath.Walk(root) visits, in its order; a root that is
\* not there is handed to the function once, with the error of os.Lstat
WalkEntries(f, root) ==
    IF ~Exists(f, root) THEN <<root>>
    ELSE WalkOrder({p \in f.dirs \cup DOMAIN f.files : IsUnder(p, root)})

\* a check that never finds the directory missing
NeverNotExist(f, path) == FALSE

\* os.IsNotExist(err) for the err of os.Stat(path)
IsNotExist(f, path) == ~Exists(f, path)

(***************************************************************************)
(* File contents, digests, and the inputs of a build                       *)
(***************************************************************************)
\* the byte strings files hold
Image == <<"i", "m", "a", "g", "e">>
Robot == <<"r", "o", "b", "o", "t">>
BytesX == <<"x">>
BytesY == <<"y">>

\* a digest that takes in more than the bytes: it differs from one Build
\* to the next
DigestSalted(data) ==
    IF builds > 1
    THEN <<"0", "0", "0", "0", "0", "0", "0">>
    ELSE CASE data = Image  -> <<"6", "1", "0", "5", "d", "6", "c">>
           [] data = Robot  -> <<"1", "8", "d", "6", "3", "b", "e">>
           [] data = BytesX -> <<"2", "d", "7", "1", "1", "6", "4">>
           [] data = BytesY -> <<"a", "1", "f", "c", "e", "4", "3">>

\* hex.EncodeToString(sha256.Sum256(data))[:7], by table (the true digests)
Digest(data) ==
    CASE data = Image  -> <<"6", "1", "0", "5", "d", "6", "c">>
      [] data = Robot  -> <<"1", "8", "d", "6", "3", "b", "e">>
      [] data = BytesX -> <<"2", "d", "7", "1", "1", "6", "4">>
      [] data = BytesY -> <<"a", "1", "f", "c", "e", "4", "3">>

NoTree == [dirs |-> {}, files |-> Empty]

\* two trees side by side
Merge(f, g) == [dirs |-> f.dirs \cup g.dirs, files |-> f.files @@ g.files]

\* the names used below the three directories
NameIP == <<"i", ".", "p">>
NameN == <<"n">>
NameD == <<"d">>
NameG == <<"g", ".", "j">>
NameRT == <<"r", ".", "t">>
NameS == <<"s">>
NameK == <<"k">>
NameOld == <<"o", "l", "d">>
NameI == <<"i">>
NameA == <<"a">>

\* what the assets directory may hold when Build is first called
AssetTrees ==
    { NoTree,
      [dirs |-> {AssetsDir},
       files |-> (Join(AssetsDir, NameIP) :> Image)],
      [dirs |-> {AssetsDir, Join(AssetsDir, NameD)},
       files |-> (Join(AssetsDir, NameIP) :> Image)
                 @@ (Join(AssetsDir, NameN) :> Image)
                 @@ (Join(Join(AssetsDir, NameD), NameIP) :> Image)] }

\* what the public-files directory may hold
PublicTrees ==
    { NoTree,
      [dirs |-> {PublicDir, Join(PublicDir, NameS)},
       files |-> (Join(PublicDir, NameRT) :> Robot)
                 @@ (Join(Join(PublicDir, NameS), NameK) :> BytesX)],
      [dirs |-> {PublicDir},
       files |-> (Join(PublicDir, NameI) :> Robot)
                 @@ (Join(PublicDir, NameA) :> BytesX)] }

\* what the output directory may hold from earlier runs of the program
OutputTrees ==
    { NoTree,
      [dirs |-> {OutputDir},
       files |-> (Join(OutputDir, NameOld) :> BytesX)
                 @@ (Join(OutputDir, NameI) :> BytesY)] }

\* the sequences over S of length at most n
RECURSIVE SeqsUpTo(_, _)
SeqsUpTo(S, n) ==
    IF n = 0 THEN {<<>>}
    ELSE SeqsUpTo(S, n - 1)
         \cup {Append(q, x) : q \in SeqsUpTo(S, n - 1), x \in S}

\* the maps from a subset of K to V
PartialMaps(K, V) == UNION {[D -> V] : D \in SUBSET K}

\* what Build returns, and what it has not yet returned
NoResult == [phase |-> "none", cmd |-> ""]
Nil == [phase |-> "nil", cmd |-> ""]

\* fmt.Errorf("%q: %w\n", command, err) in runCommands
CommandError(command) == [phase |-> "", cmd |-> command]
\* the other errors of the phases
IOError == [phase |-> "", cmd |-> ""]
\* fmt.Errorf("<what>: %w", err) in Build
Wrap(what, err) == [err EXCEPT !.phase = what]

\* an entry of the history of a build
Event(ev, path, cmd, n, ok) ==
    [ev |-> ev, path |-> path, cmd |-> cmd, n |-> n, ok |-> ok]

\* the contents of the files below root
Contents(f, root) == [p \in FilesUnder(f, root) |-> f.files[p]]

\* what prev holds before the first call of Build
NoBuild == [table |-> Empty, src |-> Empty, out |-> {}, ok |-> FALSE]

\* the build variables before Build is called, on file system f
BuildVarsAt(f) ==
    /\ fs = f
    /\ buildpc = "idle"
    /\ ci = 1
    /\ running = {}
    /\ walk = <<>>
    /\ todo = {}
    /\ result = NoResult
    /\ builds = 0
    /\ trace = <<>>
    /\ stale = {}
    /\ written = {}
    /\ walked = {}
    /\ prev = NoBuild

\* the files of the test: an image among the assets, robots.txt among the
\* public files
TestTree ==
    [dirs |-> {AssetsDir, PublicDir},
     files |-> (Join(AssetsDir, NameIP) :> Image)
               @@ (Join(PublicDir, NameRT) :> Robot)]

InitBuildVars == BuildVarsAt(TestTree)

(***************************************************************************)
(* New: the configuration queue                                            *)
(***************************************************************************)
\* the state New builds before its loop: one pending configurer, empty maps
InitNew ==
    /\ configurers = <<1>>
    /\ renderers = Empty
    /\ assets = Empty
    /\ commands = <<>>
    /\ newpc = "loop"
    /\ active = 0
    /\ created = 1
    /\ gen = (1 :> 0)
    /\ invoked = <<>>
    /\ failedStep = 0
    /\ runCalls = <<>>
    /\ lastRender = Empty
    /\ replaced = FALSE
    /\ InitBuildVars

\* the configurer the loop takes next
NextConfigurer(q) == Head(q)

\* the queue after the loop has taken one
RestConfigurers(q) == Tail(q)

\* a loop that stops one configurer early
LoopConditionOffByOne(q) == Len(q) > 1

\* the loop condition of New
LoopCondition(q) == Len(q) > 0

\* a Configure that puts the new configurer in front
PrependConfigurer(q, c) == <<c>> \o q

\* Site.Configure: append at the tail
AppendConfigurer(q, c) == Append(q, c)

\* one iteration of the loop up to the call of configurer.Configure
NewPop ==
    /\ newpc = "loop"
    /\ LoopCondition(configurers)
    /\ active' = NextConfigurer(configurers)
    /\ configurers' = RestConfigurers(configurers)
    /\ invoked' = Append(invoked, NextConfigurer(configurers))
    /\ newpc' = "step"
    /\ UNCHANGED <<renderers, assets, commands, created, gen, failedStep,
                   runCalls, replaced, lastRender,
                   buildVars>>

\* the loop condition is false: return s, nil
NewReturn ==
    /\ newpc = "loop"
    /\ ~LoopCondition(configurers)
    /\ newpc' = "returned"
    /\ UNCHANGED <<configurers, renderers, assets, commands, active, created,
                   gen, invoked, failedStep, runCalls, replaced, lastRender,
                   buildVars>>

\* the executing configurer calls s.Configure / s.ConfigureFunc
Configure ==
    /\ newpc = "step"
    /\ created < MaxSteps
    /\ created' = created + 1
    /\ configurers' = AppendConfigurer(configurers, created + 1)
    /\ gen' = gen @@ ((created + 1) :> (gen[active] + 1))
    /\ UNCHANGED <<renderers, assets, commands, newpc, active, invoked,
                   failedStep, runCalls, replaced, lastRender,
                   buildVars>>

\* a registration that keeps the renderer a path already has
RegisterFirstWins(m, path, renderer) ==
    IF path \in DOMAIN m THEN m ELSE MapSet(m, path, renderer)

\* Site.Render: s.renderers[path] = renderer
Register(m, path, renderer) == MapSet(m, path, renderer)

\* the executing configurer calls s.Render / s.RenderFunc
Render ==
    /\ newpc = "step"
    /\ \E path \in RenderPaths, r \in Renderers :
          /\ renderers' = Register(renderers, path, r)
          /\ lastRender' = MapSet(lastRender, path, r)
          /\ replaced' = (replaced \/ (path \in DOMAIN lastRender
                                        /\ lastRender[path] # r))
    /\ UNCHANGED <<configurers, assets, commands, newpc, active, created,
                   gen, invoked, failedStep, runCalls, buildVars>>

\* Site.Run: append to the commands
AppendCommand(cmds, command) == Append(cmds, command)

\* the executing configurer calls s.Run
Run ==
    /\ newpc = "step"
    /\ Len(commands) < MaxCmds
    /\ \E command \in Cmds :
          /\ commands' = AppendCommand(commands, command)
          /\ runCalls' = Append(runCalls, command)
    /\ UNCHANGED <<configurers, renderers, assets, newpc, active, created,
                   gen, invoked, failedStep, replaced, lastRender,
                   buildVars>>

\* a loop that ignores the error of a configurer
AfterStepIgnoringError(err) == "loop"

\* a loop that returns the Site after the first configurer that succeeds
AfterStepReturningEarly(err) == IF err THEN "failed" ELSE "returned"

\* where New goes when Configure returned err
AfterStep(err) == IF err THEN "failed" ELSE "loop"

\* configurer.Configure returns, with an error or without
StepReturn ==
    /\ newpc = "step"
    /\ \E err \in BOOLEAN :
          /\ newpc' = AfterStep(err)
          /\ failedStep' = IF err THEN active ELSE failedStep
    /\ active' = 0
    /\ UNCHANGED <<configurers, renderers, assets, commands, created, gen,
                   invoked, runCalls, replaced, lastRender,
                   buildVars>>

NextNew ==
    \/ NewPop
    \/ NewReturn
    \/ Configure
    \/ Render
    \/ Run
    \/ StepReturn

SpecNew == InitNew /\ [][NextNew]_vars

\* New is sequential code and every call of Configure returns: the loop
\* takes its next iteration, a running configurer returns, New returns
FairNew == WF_vars(NewPop) /\ WF_vars(StepReturn) /\ WF_vars(NewReturn)

SpecNewFair == SpecNew /\ FairNew

(***************************************************************************)
(* Properties of New                                                       *)
(***************************************************************************)
\* how often New has invoked configurer c
TimesInvoked(c) == Cardinality({i \in DOMAIN invoked : invoked[i] = c})

\* C5: whenever New returns a Site, no configurer is pending and every
\* configurer ever enqueued, at any nesting depth, has been invoked exactly
\* once.
C5_DrainedExactlyOnce ==
    newpc = "returned" =>
        /\ configurers = <<>>
        /\ \A c \in 1..created : TimesInvoked(c) = 1

\* New has returned a Site after draining configurers enqueued by
\* configurers
C5_Witness ==
    /\ newpc = "returned"
    /\ created >= 3
    /\ Len(invoked) = created

C7_FifoOrder ==
    /\ \A i \in DOMAIN invoked : invoked[i] = i
    /\ configurers = [i \in 1..(created - Len(invoked)) |-> Len(invoked) + i]
    /\ \A i, j \in DOMAIN invoked :
          i < j => gen[invoked[i]] <= gen[invoked[j]]

\* the first configurer enqueued two, the first of them enqueued a fourth,
\* and all four have been invoked
C7_Witness ==
    /\ Len(invoked) = 4
    /\ gen[2] = 1 /\ gen[3] = 1 /\ gen[4] = 2

\* C8: once a configurer has failed, New has failed (it returns no Site),
\* and the failing configurer is the last one invoked: no pending
\* configurer is invoked afterwards.
C8_FailsImmediately ==
    failedStep # 0 =>
        /\ newpc = "failed"
        /\ invoked[Len(invoked)] = failedStep
        /\ active = 0

\* the initial configurer enqueued another and then failed
C8_Witness ==
    /\ failedStep = 1
    /\ configurers # <<>>

(***************************************************************************)
(* Build                                                                   *)
(***************************************************************************)
\* a Site as New returns it: the queue drained by one configurer that made
\* the registrations itself
Init ==
    /\ configurers = <<>>
    /\ renderers \in PartialMaps(RenderPaths, Renderers)
    /\ assets = Empty
    /\ commands \in SeqsUpTo(Cmds, MaxCmds)
    /\ newpc = "returned"
    /\ active = 0
    /\ created = 1
    /\ gen = (1 :> 0)
    /\ invoked = <<1>>
    /\ failedStep = 0
    /\ runCalls = commands
    /\ lastRender = renderers
    /\ replaced = FALSE
    /\ \E a \in AssetTrees, p \in PublicTrees, o \in OutputTrees :
          BuildVarsAt(Merge(a, Merge(p, o)))

\* a Build that copies the assets before it runs the commands
AfterPhaseAssetsFirst(pc) ==
    CASE pc = "remove"   -> "mkdir"
      [] pc = "mkdir"    -> "assets"
      [] pc = "assets"   -> "commands"
      [] pc = "commands" -> "public"
      [] pc = "public"   -> "render"
      [] pc = "render"   -> "returned"

\* where Build goes when the phase at position pc returned nil
AfterPhase(pc) ==
    CASE pc = "remove"   -> "mkdir"
      [] pc = "mkdir"    -> "commands"
      [] pc = "commands" -> "assets"
      [] pc = "assets"   -> "public"
      [] pc = "public"   -> "render"
      [] pc = "render"   -> "returned"

\* a Build that returns nil where it should return the error
AfterErrorSwallowed(what, err) == [pc |-> "returned", result |-> Nil]

\* where Build goes when the phase at position pc returned an error, and
\* with what
AfterError(what, err) == [pc |-> "returned", result |-> Wrap(what, err)]

\* a Build that stops at the first renderer that fails
AfterRenderErrorAborting(pc) == "returned"

\* where Build goes when a renderer returned an error: it is logged
AfterRenderError(pc) == pc

Log(ev) == trace' = Append(trace, ev)

\* the program calls site.Build
BuildCall ==
    /\ newpc = "returned"
    /\ buildpc \in {"idle", "returned"}
    /\ builds < MaxBuilds
    /\ builds' = builds + 1
    /\ buildpc' = "remove"
    /\ result' = NoResult
    /\ trace' = <<>>
    /\ stale' = FilesUnder(fs, OutputDir)
    /\ written' = {}
    /\ walked' = {}
    /\ prev' = [table |-> assets,
                src   |-> Contents(fs, AssetsDir),
                out   |-> FilesUnder(fs, Join(OutputDir, AssetsDir)),
                ok    |-> buildpc = "returned" /\ result = Nil]
    /\ ci' = 1
    /\ running' = {}
    /\ walk' = <<>>
    /\ todo' = {}
    /\ UNCHANGED <<siteVars, newVars, fs>>

\* Build returns the error of a phase
Fail(what, err, ev) ==
    /\ buildpc' = AfterError(what, err).pc
    /\ result' = AfterError(what, err).result
    /\ Log(ev)

\* a Build that leaves the output directory as it is
ResetKeeping(f) == f

\* what os.RemoveAll(s.OutputDir) leaves
Reset(f) == RemoveAll(f, OutputDir)

\* os.RemoveAll(s.OutputDir)
RemoveOutputDir ==
    /\ buildpc = "remove"
    /\ \E ok \in BOOLEAN :
          IF ok
          THEN /\ fs' = Reset(fs)
               /\ buildpc' = AfterPhase("remove")
               /\ Log(Event("remove", OutputDir, "", 0, TRUE))
               /\ UNCHANGED result
          ELSE /\ Fail("remove output dir", IOError,
                       Event("remove", OutputDir, "", 0, FALSE))
               /\ UNCHANGED fs
    /\ UNCHANGED <<siteVars, newVars, ci, running, walk, todo, builds, stale,
                   written, walked, prev>>

\* os.MkdirAll(s.OutputDir, 0755)
MkdirOutputDir ==
    /\ buildpc = "mkdir"
    /\ \E ok \in BOOLEAN :
          IF ok /\ CanMkdirAll(fs, OutputDir)
          THEN /\ fs' = MkdirAll(fs, OutputDir)
               /\ buildpc' = AfterPhase("mkdir")
               /\ Log(Event("mkdir", OutputDir, "", 0, TRUE))
               /\ UNCHANGED result
          ELSE /\ Fail("create output dir", IOError,
                       Event("mkdir", OutputDir, "", 0, FALSE))
               /\ UNCHANGED fs
    /\ UNCHANGED <<siteVars, newVars, ci, running, walk, todo, builds, stale,
                   written, walked, prev>>

\* runCommands is entered: the loop starts at the first command
RunCommandsStart ==
    /\ buildpc = "commands"
    /\ buildpc' = "commands_loop"
    /\ ci' = 1
    /\ UNCHANGED <<siteVars, newVars, fs, running, walk, todo, result, builds,
                   trace, stale, written, walked, prev>>

\* the files a shell command writes: "c1" bundles a script into the assets
\* directory, "c2" writes a file into the output directory
CommandWrites(command) ==
    IF command = "c1" THEN Join(AssetsDir, NameG) ELSE Join(OutputDir, NameOld)

\* the file system after a shell command has run
CommandEffect(f, command) ==
    LET path == CommandWrites(command)
    IN  IF CanMkdirAll(f, Dir(path)) /\ ~IsDirectory(f, path)
        THEN WriteFile(MkdirAll(f, Dir(path)), path, BytesY)
        ELSE f

\* a loop that starts the subprocess and does not wait for it (cmd.Start)
RunReturnsAtOnce(procs) == TRUE

\* cmd.Run() returns only when the subprocess has exited: the loop goes on
\* only when no subprocess runs
RunHasReturned(procs) == procs = {}

\* the command of iteration i of the loop of runCommands
CommandAt(cmds, i) == cmds[i]

\* an iteration of runCommands spawns the subprocess (cmd.Run, first half)
CommandStart ==
    /\ buildpc = "commands_loop"
    /\ RunHasReturned(running)
    /\ ci <= Len(commands)
    /\ \E spawned \in BOOLEAN :
          IF spawned
          THEN /\ running' = running \cup {ci}
               /\ ci' = ci + 1
               /\ Log(Event("start", <<>>, CommandAt(commands, ci), ci, TRUE))
               /\ UNCHANGED <<buildpc, result>>
          ELSE /\ Fail("run commands", CommandError(CommandAt(commands, ci)),
                       Event("start", <<>>, CommandAt(commands, ci), ci, FALSE))
               /\ UNCHANGED <<running, ci>>
    /\ UNCHANGED <<siteVars, newVars, fs, walk, todo, builds, stale, written,
                   walked, prev>>

\* the subprocess exits (cmd.Run, second half), with status 0 or not
CommandExit ==
    /\ buildpc = "commands_loop"
    /\ \E i \in running, ok \in BOOLEAN, done \in BOOLEAN :
          /\ running' = running \ {i}
          /\ fs' = IF ok \/ done THEN CommandEffect(fs, commands[i]) ELSE fs
          /\ written' =
                IF (ok \/ done) /\ IsUnder(CommandWrites(commands[i]), OutputDir)
                THEN written \cup {CommandWrites(commands[i])}
                ELSE written
          /\ IF ok
             THEN /\ Log(Event("exit", <<>>, commands[i], i, TRUE))
                  /\ UNCHANGED <<buildpc, result>>
             ELSE Fail("run commands", CommandError(commands[i]),
                       Event("exit", <<>>, commands[i], i, FALSE))
    /\ UNCHANGED <<siteVars, newVars, ci, walk, todo, builds, stale, walked, prev>>

\* the loop of runCommands is over: return nil
RunCommandsDone ==
    /\ buildpc = "commands_loop"
    /\ RunHasReturned(running)
    /\ ci > Len(commands)
    /\ buildpc' = AfterPhase("commands")
    /\ UNCHANGED <<siteVars, newVars, fs, ci, running, walk, todo, result,
                   builds, trace, stale, written, walked, prev>>

\* a fingerprint taken from the name of the file instead of its bytes
FingerprintOfName(fileName, digest) ==
    fileName \o Dot \o [i \in 1..7 |-> fileName[1]]

\* a fingerprint that is always put at the end of the name
FingerprintAppended(fileName, digest) == fileName \o Dot \o digest

\* the fingerprinted file name copyAssets derives from a file name
Fingerprint(fileName, digest) ==
    LET index == LastIndex(fileName, ".")
    IN  IF index # 0
        THEN SubSeq(fileName, 1, index - 1) \o Dot \o digest
             \o SubSeq(fileName, index, Len(fileName))
        ELSE fileName \o Dot \o digest

\* the name copyAssets registers the file at path under
AssetName(path) == TrimPrefix(path, AssetsDir \o Slash)

\* where copyAssets writes the file at path
AssetDest(f, path) ==
    Join(Join(OutputDir, Dir(path)), Fingerprint(Base(path), Digest(f.files[path])))

\* the asset-table value copyAssets records for the file at path
AssetEntry(f, path) ==
    Join(Dir(AssetName(path)), Fingerprint(Base(path), Digest(f.files[path])))

\* a copyAssets that forgets to record the asset
RecordNothing(table, name, entry) == table

\* a table that is made anew for every file
RecordAssetFresh(table, name, entry) == (name :> entry)

\* s.assets after copyAssets has handled a regular file
RecordAsset(table, name, entry) == MapSet(table, name, entry)

\* copyAssets is entered: os.Stat(s.AssetsDir), then filepath.Walk begins
CopyAssetsStart ==
    /\ buildpc = "assets"
    /\ walked' = FilesUnder(fs, AssetsDir)
    /\ IF IsNotExist(fs, AssetsDir)
       THEN /\ buildpc' = AfterPhase("assets")
            /\ UNCHANGED walk
       ELSE /\ buildpc' = "assets_walk"
            /\ walk' = WalkEntries(fs, AssetsDir)
    /\ UNCHANGED <<siteVars, newVars, fs, ci, running, todo, result, builds,
                   trace, stale, written, prev>>

\* the function copyAssets hands to filepath.Walk, on one entry
CopyAsset ==
    /\ buildpc = "assets_walk"
    /\ walk # <<>>
    /\ LET path == Head(walk) IN
       \E ok \in BOOLEAN :
          IF ~Exists(fs, path)
          THEN \* Walk hands over the error of os.Lstat
               /\ Fail("copy assets", IOError,
                       Event("asset", path, "", 0, FALSE))
               /\ UNCHANGED <<assets, fs, walk, written>>
          ELSE IF IsDirectory(fs, path)
          THEN IF ok /\ CanMkdirAll(fs, Join(OutputDir, path))
               THEN /\ fs' = MkdirAll(fs, Join(OutputDir, path))
                    /\ walk' = Tail(walk)
                    /\ Log(Event("assetdir", path, "", 0, TRUE))
                    /\ UNCHANGED <<assets, buildpc, result, written>>
               ELSE /\ Fail("copy assets", IOError,
                            Event("assetdir", path, "", 0, FALSE))
                    /\ UNCHANGED <<assets, fs, walk, written>>
          ELSE IF ok /\ CanCreate(fs, AssetDest(fs, path))
               THEN /\ fs' = WriteFile(fs, AssetDest(fs, path), fs.files[path])
                    /\ assets' = RecordAsset(assets, AssetName(path),
                                             AssetEntry(fs, path))
                    /\ written' = written \cup {AssetDest(fs, path)}
                    /\ walk' = Tail(walk)
                    /\ Log(Event("asset", path, "", 0, TRUE))
                    /\ UNCHANGED <<buildpc, result>>
               ELSE /\ Fail("copy assets", IOError,
                            Event("asset", path, "", 0, FALSE))
                    /\ UNCHANGED <<assets, fs, walk, written>>
    /\ UNCHANGED <<configurers, renderers, commands, newVars, ci, running,
                   todo, builds, stale, walked, prev>>

\* filepath.Walk has visited every entry: copyAssets returns nil
CopyAssetsDone ==
    /\ buildpc = "assets_walk"
    /\ walk = <<>>
    /\ buildpc' = AfterPhase("assets")
    /\ UNCHANGED <<siteVars, newVars, fs, ci, running, walk, todo, result,
                   builds, trace, stale, written, walked, prev>>

\* a copy that creates the file and writes nothing
IoCopyNothing(data) == <<>>

\* io.Copy(dest, src): the bytes that reach the new file
IoCopy(data) == data

\* where copyPublicFiles puts the entry at path
PublicDest(path) == OutputDir \o Slash \o TrimPrefix(path, PublicDir \o Slash)

\* copyPublicFiles is entered: os.Stat(s.PublicDir), then filepath.Walk
CopyPublicStart ==
    /\ buildpc = "public"
    /\ IF IsNotExist(fs, PublicDir)
       THEN /\ buildpc' = AfterPhase("public")
            /\ UNCHANGED walk
       ELSE /\ buildpc' = "public_walk"
            /\ walk' = WalkEntries(fs, PublicDir)
    /\ UNCHANGED <<siteVars, newVars, fs, ci, running, todo, result, builds,
                   trace, stale, written, walked, prev>>

\* the function copyPublicFiles hands to filepath.Walk, on one entry
CopyPublic ==
    /\ buildpc = "public_walk"
    /\ walk # <<>>
    /\ LET path == Head(walk) IN
       \E ok \in BOOLEAN :
          IF ~ok \/ ~Exists(fs, path)
          THEN /\ Fail("copy public files", IOError,
                       Event("public", path, "", 0, FALSE))
               /\ UNCHANGED <<fs, walk, written>>
          ELSE IF path = PublicDir
          THEN /\ walk' = Tail(walk)
               /\ UNCHANGED <<fs, buildpc, result, trace, written>>
          ELSE IF IsDirectory(fs, path)
          THEN IF CanMkdirAll(fs, PublicDest(path))
               THEN /\ fs' = MkdirAll(fs, PublicDest(path))
                    /\ walk' = Tail(walk)
                    /\ Log(Event("publicdir", path, "", 0, TRUE))
                    /\ UNCHANGED <<buildpc, result, written>>
               ELSE /\ Fail("copy public files", IOError,
                            Event("publicdir", path, "", 0, FALSE))
                    /\ UNCHANGED <<fs, walk, written>>
          ELSE IF CanCreate(fs, PublicDest(path))
               THEN /\ fs' = WriteFile(fs, PublicDest(path),
                                       IoCopy(fs.files[path]))
                    /\ written' = written \cup {PublicDest(path)}
                    /\ walk' = Tail(walk)
                    /\ Log(Event("public", path, "", 0, TRUE))
                    /\ UNCHANGED <<buildpc, result>>
               ELSE /\ Fail("copy public files", IOError,
                            Event("public", path, "", 0, FALSE))
                    /\ UNCHANGED <<fs, walk, written>>
    /\ UNCHANGED <<siteVars, newVars, ci, running, todo, builds, stale, walked, prev>>

\* filepath.Walk has visited every entry: copyPublicFiles returns nil
CopyPublicDone ==
    /\ buildpc = "public_walk"
    /\ walk = <<>>
    /\ buildpc' = AfterPhase("public")
    /\ UNCHANGED <<siteVars, newVars, fs, ci, running, walk, todo, result,
                   builds, trace, stale, written, walked, prev>>

\* the asset names a renderer asks Asset for: "r1" is the page of the test,
\* which embeds the image; "r2" embeds nothing
Lookups(renderer) == IF renderer = "r1" THEN {NameIP} ELSE {}

\* the value and the ok of the map lookup s.assets[name]: a missing key
\* gives the empty string
Lookup(table, name) == IF name \in DOMAIN table THEN table[name] ELSE <<>>

\* Site.Asset: the URL path of a registered asset
Asset(table, name) == Slash \o AssetsDir \o Slash \o Lookup(table, name)

\* an Asset that returns the zero value of the lookup
AssetNeverPanics(table, name) == FALSE

\* Site.Asset panics: the name is not in the table
AssetPanics(table, name) == name \notin DOMAIN table

\* a render loop that recovers from the panic of a renderer and goes on
AfterPanicRecovered(pc) == pc

\* where Build goes when a renderer panics: nothing recovers, the panic
\* leaves Build
AfterPanic(pc) == "panicked"

\* the bytes a renderer writes when it succeeds
Page(table, renderer) ==
    IF renderer = "r1" THEN <<"<">> \o Asset(table, NameIP) \o <<">">>
    ELSE <<"<", ">">>

\* the paths the range over s.renderers visits
RangeOver(m) == DOMAIN m

\* the loop over s.renderers begins
RenderStart ==
    /\ buildpc = "render"
    /\ buildpc' = "render_loop"
    /\ todo' = RangeOver(renderers)
    /\ UNCHANGED <<siteVars, newVars, fs, ci, running, walk, result, builds,
                   trace, stale, written, walked, prev>>

\* one iteration of the loop over s.renderers: s.render(ctx, file, renderer)
RenderOne ==
    /\ buildpc = "render_loop"
    /\ \E file \in todo, ok \in BOOLEAN, err \in BOOLEAN :
          LET out == OutputDir \o Slash \o file
              renderer == renderers[file]
          IN  /\ todo' = todo \ {file}
              /\ IF ~(ok /\ CanMkdirAll(fs, Dir(out)))
                 THEN \* os.MkdirAll failed
                      /\ buildpc' = AfterRenderError(buildpc)
                      /\ Log(Event("rmkdir", file, renderer, 0, FALSE))
                      /\ UNCHANGED <<fs, written>>
                 ELSE IF ~CanCreate(MkdirAll(fs, Dir(out)), out)
                 THEN \* os.Create failed
                      /\ fs' = MkdirAll(fs, Dir(out))
                      /\ buildpc' = AfterRenderError(buildpc)
                      /\ Log(Event("create", file, renderer, 0, FALSE))
                      /\ UNCHANGED written
                 ELSE IF \E name \in Lookups(renderer) : AssetPanics(assets, name)
                 THEN \* the renderer panics in Asset
                      /\ fs' = WriteFile(MkdirAll(fs, Dir(out)), out, <<>>)
                      /\ written' = written \cup {out}
                      /\ buildpc' = AfterPanic(buildpc)
                      /\ Log(Event("panic", file, renderer, 0, FALSE))
                 ELSE IF err
                 THEN \* the renderer returns an error
                      /\ fs' = WriteFile(MkdirAll(fs, Dir(out)), out, <<>>)
                      /\ written' = written \cup {out}
                      /\ buildpc' = AfterRenderError(buildpc)
                      /\ Log(Event("render", file, renderer, 0, FALSE))
                 ELSE /\ fs' = WriteFile(MkdirAll(fs, Dir(out)), out,
                                         Page(assets, renderer))
                      /\ written' = written \cup {out}
                      /\ UNCHANGED buildpc
                      /\ Log(Event("render", file, renderer, 0, TRUE))
    /\ UNCHANGED <<siteVars, newVars, ci, running, walk, result, builds, stale,
                   walked, prev>>

\* the loop over s.renderers is over: return nil
BuildReturn ==
    /\ buildpc = "render_loop"
    /\ todo = {}
    /\ buildpc' = AfterPhase("render")
    /\ result' = Nil
    /\ UNCHANGED <<siteVars, newVars, fs, ci, running, walk, todo, builds,
                   trace, stale, written, walked, prev>>

NextBuild ==
    \/ BuildCall
    \/ RemoveOutputDir
    \/ MkdirOutputDir
    \/ RunCommandsStart
    \/ CommandStart
    \/ CommandExit
    \/ RunCommandsDone
    \/ CopyAssetsStart
    \/ CopyAsset
    \/ CopyAssetsDone
    \/ CopyPublicStart
    \/ CopyPublic
    \/ CopyPublicDone
    \/ RenderStart
    \/ RenderOne
    \/ BuildReturn

Next == NextBuild

Spec == Init /\ [][Next]_vars

\* between two calls of Build a file of the assets directory is removed:
\* copyAssets reads the directory anew on every Build
RemoveAssetFile ==
    /\ buildpc = "returned"
    /\ result = Nil
    /\ builds < MaxBuilds
    /\ \E p \in FilesUnder(fs, AssetsDir) :
          fs' = [fs EXCEPT !.files =
                    [q \in DOMAIN fs.files \ {p} |-> fs.files[q]]]
    /\ buildpc' = "idle"
    /\ UNCHANGED <<siteVars, newVars, ci, running, walk, todo, result, builds,
                   trace, stale, written, walked, prev>>

\* Build called again and again while the assets directory changes
NextEdit ==
    \/ NextBuild
    \/ RemoveAssetFile

SpecEdit == Init /\ [][NextEdit]_vars

\* the life of a Site: New, then calls of Build
NextSite ==
    \/ NextNew
    \/ NextBuild

SpecSite == InitNew /\ [][NextSite]_vars

(***************************************************************************)
(* Properties of Build                                                     *)
(***************************************************************************)
\* the phase an entry of the history belongs to
PhaseOf(e) ==
    CASE e.ev \in {"remove", "mkdir"}                     -> 1
      [] e.ev \in {"start", "exit"}                       -> 2
      [] e.ev \in {"assetdir", "asset"}                   -> 3
      [] e.ev \in {"publicdir", "public"}                 -> 4
      [] e.ev \in {"rmkdir", "create", "panic", "render"} -> 5

\* the word Build wraps the error of a phase in
WrapOf(e) ==
    CASE e.ev = "remove" -> "remove output dir"
      [] e.ev = "mkdir"  -> "create output dir"
      [] PhaseOf(e) = 2  -> "run commands"
      [] PhaseOf(e) = 3  -> "copy assets"
      [] PhaseOf(e) = 4  -> "copy public files"
      [] PhaseOf(e) = 5  -> "render"

\* the history up to and excluding entry j has an entry like this
Before(j, ev, path, n) ==
    \E i \in 1..(j - 1) :
        /\ trace[i].ev = ev /\ trace[i].path = path /\ trace[i].n = n
        /\ trace[i].ok

\* C1: Build runs its phases in the order reset, commands, assets, public,
\* render: what it does is ordered by phase; a command starts only after the
\* output directory was removed and recreated; an asset is copied only
\* after every registered command has exited with success; a public file is
\* copied only after every asset file was copied; a renderer runs only after
\* every public file was copied.
C1_PhaseOrder ==
    /\ \A i, j \in DOMAIN trace :
          i < j => PhaseOf(trace[i]) <= PhaseOf(trace[j])
    /\ \A j \in DOMAIN trace :
          /\ PhaseOf(trace[j]) = 2 =>
                /\ Before(j, "remove", OutputDir, 0)
                /\ Before(j, "mkdir", OutputDir, 0)
          /\ PhaseOf(trace[j]) = 3 =>
                \A n \in 1..Len(commands) : Before(j, "exit", <<>>, n)
          /\ PhaseOf(trace[j]) = 4 =>
                \A p \in walked : Before(j, "asset", p, 0)
          /\ PhaseOf(trace[j]) = 5 =>
                \A p \in FilesUnder(fs, PublicDir) : Before(j, "public", p, 0)
    /\ buildpc \in {"assets", "assets_walk"} =>
          \A n \in 1..Len(commands) : Before(Len(trace) + 1, "exit", <<>>, n)
    /\ buildpc \in {"render", "render_loop"} =>
          /\ \A p \in walked : Before(Len(trace) + 1, "asset", p, 0)
          /\ walked = FilesUnder(fs, AssetsDir)

\* a build that ran a command, copied an asset and a public file, and
\* rendered a page has returned
C1_Witness ==
    /\ buildpc = "returned"
    /\ result = Nil
    /\ \A ph \in 1..5 : \E i \in DOMAIN trace : PhaseOf(trace[i]) = ph

\* the entries of the history that are render's, for a path
RenderEvents(path) ==
    {i \in DOMAIN trace : PhaseOf(trace[i]) = 5 /\ trace[i].path = path}

\* Build has returned, and not with the error of one of the first four
\* phases
ReturnedFromRender ==
    /\ buildpc = "returned"
    /\ result.phase \notin {"remove output dir", "create output dir",
                            "run commands", "copy assets", "copy public files"}

\* C2: a renderer that returns an error (or whose file cannot be created)
\* stops neither the other renderers nor the build: while the loop runs,
\* every registered path is either still to come or was handled once, and
\* when Build returns from the render phase it returns nil, every registered
\* path was handled exactly once, and the file of every renderer that
\* succeeded is there.
C2_RenderIsolation ==
    /\ buildpc = "render_loop" =>
          \A path \in DOMAIN renderers :
              IF path \in todo THEN RenderEvents(path) = {}
              ELSE Cardinality(RenderEvents(path)) = 1
    /\ ReturnedFromRender =>
          /\ result = Nil
          /\ \A path \in DOMAIN renderers :
                /\ Cardinality(RenderEvents(path)) = 1
                /\ \A i \in RenderEvents(path) :
                      trace[i].ok => IsFile(fs, OutputDir \o Slash \o path)

\* one renderer failed, another was run after it and succeeded, and Build
\* returned nil
C2_Witness ==
    /\ buildpc = "returned"
    /\ result = Nil
    /\ \E i, j \in DOMAIN trace :
          /\ i < j
          /\ trace[i].ev = "render" /\ ~trace[i].ok
          /\ trace[j].ev = "render" /\ trace[j].ok

\* the entries of the history where one of the first four phases failed
Failures == {i \in DOMAIN trace : PhaseOf(trace[i]) <= 4 /\ ~trace[i].ok}

\* C3: Build returns an error exactly when one of reset, commands, assets,
\* public failed: the failure is the last thing the build did (nothing of a
\* later phase follows, no renderer runs), Build has returned, and what it
\* returned is the error wrapped with the words of the phase; a Build that
\* returned without such a failure returned nil.
C3_FailureIffPhaseFails ==
    /\ \A i \in Failures :
          /\ i = Len(trace)
          /\ buildpc = "returned"
          /\ result.phase = WrapOf(trace[i])
    /\ buildpc = "returned" =>
          IF Failures = {}
          THEN /\ result = Nil
               /\ \A path \in DOMAIN renderers : RenderEvents(path) # {}
          ELSE /\ result # Nil
               /\ \A path \in DOMAIN renderers : RenderEvents(path) = {}

\* the asset phase failed on a Site with renderers, and Build returned its
\* error
C3_Witness ==
    /\ buildpc = "returned"
    /\ result.phase = "copy assets"
    /\ renderers # Empty
    /\ \E i \in DOMAIN trace : trace[i].ev = "exit" /\ trace[i].ok

\* the asset table has an entry for every file the asset phase found
TablePopulated == \A p \in walked : AssetName(p) \in DOMAIN assets

\* C4: whenever a renderer is about to run or has run in this build, the
\* asset table has an entry for every regular file that was under the
\* assets directory when the asset phase began; and no step of the render
\* loop changes the table.
C4_TableReadyForRenderers ==
    /\ [](buildpc \in {"render", "render_loop", "panicked"} => TablePopulated)
    /\ [](\A j \in DOMAIN trace : PhaseOf(trace[j]) = 5 => TablePopulated)
    /\ [][buildpc = "render_loop" => assets' = assets]_vars

\* the page of the test was rendered with the URL of the fingerprinted
\* image, among several assets
C4_Witness ==
    /\ buildpc = "render_loop"
    /\ Cardinality(walked) >= 2
    /\ IsFile(fs, Join(OutputDir, NameI))
    /\ fs.files[Join(OutputDir, NameI)] =
          <<"<">> \o Slash \o AssetsDir \o Slash
          \o <<"i", ".", "6", "1", "0", "5", "d", "6", "c", ".", "p">>
          \o <<">">>

\* the entries of the history that start a command
Starts == {i \in DOMAIN trace : trace[i].ev = "start" /\ trace[i].ok}

\* the entries of the history where a command failed to start or to exit
\* with status 0
CommandFailures == {i \in DOMAIN trace : PhaseOf(trace[i]) = 2 /\ ~trace[i].ok}

\* C9: the commands run one at a time in the order of the calls of Run:
\* the k-th command started is the k-th argument of Run, it starts only
\* after the one before it has exited with success, at most one subprocess
\* runs at a time, and a command that fails is the last thing the build
\* does: Build returns "run commands" wrapping an error with that command.
C9_CommandsInOrder ==
    /\ Cardinality(running) <= 1
    /\ \A j \in DOMAIN trace :
          PhaseOf(trace[j]) = 2 =>
              /\ trace[j].n \in DOMAIN runCalls
              /\ trace[j].cmd = runCalls[trace[j].n]
              /\ \A m \in 1..(trace[j].n - 1) : Before(j, "exit", <<>>, m)
              /\ trace[j].ev = "start" =>
                    trace[j].n = Cardinality({i \in Starts : i < j}) + 1
    /\ \A i \in CommandFailures :
          /\ i = Len(trace)
          /\ buildpc = "returned"
          /\ result = [phase |-> "run commands", cmd |-> runCalls[trace[i].n]]
    /\ buildpc \in {"assets", "assets_walk", "public", "public_walk",
                    "render", "render_loop"} =>
          \A n \in DOMAIN runCalls : Before(Len(trace) + 1, "exit", <<>>, n)

\* the first of two different commands exited with a failure, and the
\* second was not started
C9_Witness ==
    /\ Len(runCalls) = 2
    /\ runCalls[1] # runCalls[2]
    /\ buildpc = "returned"
    /\ \E i \in DOMAIN trace :
          trace[i].ev = "exit" /\ ~trace[i].ok /\ trace[i].n = 1

\* C10: after a Build that returned nil, a file that was under the output
\* directory when Build was called and that this Build did not create again
\* is not there.
C10_OutputReplaced ==
    (buildpc = "returned" /\ result = Nil) =>
        \A p \in stale : p \notin written => ~Exists(fs, p)

\* a stale file was there before a Build that has returned nil without
\* creating it again
C10_Witness ==
    /\ buildpc = "returned"
    /\ result = Nil
    /\ Join(OutputDir, NameOld) \in stale
    /\ Join(OutputDir, NameOld) \notin written

(***************************************************************************)
(* Properties of the asset phase                                           *)
(***************************************************************************)
\* the asset files this build has copied and recorded
Copied ==
    {p \in walked : \E i \in DOMAIN trace :
                       trace[i].ev = "asset" /\ trace[i].path = p /\ trace[i].ok}

\* the file name of the table entry of the asset file at p
EntryBase(p) == Base(assets[AssetName(p)])

\* where the digest begins in the fingerprinted name of a file named f
DigestAt(f) == IF LastIndex(f, ".") # 0 THEN LastIndex(f, ".") + 1 ELSE Len(f) + 2

\* the seven characters of the table entry of p that stand where the
\* digest was put
EmbeddedDigest(p) ==
    SubSeq(EntryBase(p), DigestAt(Base(p)), DigestAt(Base(p)) + 6)

\* C11 as stated: byte-identical asset files get the same fingerprinted
\* file name, whatever their path and their name.
C11_SameNameForSameBytes ==
    \A p, q \in Copied :
        fs.files[p] = fs.files[q] => EntryBase(p) = EntryBase(q)

\* C11 as amended: byte-identical asset files get the same seven-character
\* digest in their fingerprinted file names, whatever their path and their
\* name; the fingerprinted names are equal when the original file names
\* are equal (the directory does not matter), and the rest of the
\* fingerprinted name is the original name.
C11_SameDigestForSameBytes ==
    \A p, q \in Copied :
        fs.files[p] = fs.files[q] =>
            /\ EmbeddedDigest(p) = EmbeddedDigest(q)
            /\ Base(p) = Base(q) => EntryBase(p) = EntryBase(q)

\* two files of the same bytes, one "i.p" and one "n", and a third "i.p"
\* in another directory, have been copied
C11_Witness ==
    /\ Join(AssetsDir, NameIP) \in Copied
    /\ Join(AssetsDir, NameN) \in Copied
    /\ Join(Join(AssetsDir, NameD), NameIP) \in Copied
    /\ fs.files[Join(AssetsDir, NameIP)] = fs.files[Join(AssetsDir, NameN)]

\* b is f with a dot and the digest put in before the last dot of f, or
\* at the end of f when f has no dot
IsFingerprintOf(b, f, digest) ==
    LET k == LastIndex(f, ".") IN
    /\ Len(digest) = 7
    /\ Len(b) = Len(f) + 8
    /\ IF k # 0
       THEN /\ SubSeq(b, 1, k - 1) = SubSeq(f, 1, k - 1)
            /\ SubSeq(b, k, k + 7) = Dot \o digest
            /\ SubSeq(b, k + 8, Len(b)) = SubSeq(f, k, Len(f))
            /\ \A i \in (k + 1)..Len(f) : f[i] # "."
       ELSE /\ SubSeq(b, 1, Len(f)) = f
            /\ SubSeq(b, Len(f) + 1, Len(b)) = Dot \o digest
            /\ \A i \in 1..Len(f) : f[i] # "."

\* C12: for every regular file d/f under the assets directory, with bytes
\* B, that the asset phase has copied: the table maps d/f to d/f', where f'
\* is f with "." and the first seven hex characters of sha256(B) put in
\* before its last "." (at the end when it has none); the file
\* output/assets/d/f' holds exactly B; and Asset(d/f) is "/assets/d/f'",
\* the place of that file below the output directory.
C12_AssetCopiedAndRecorded ==
    \A p \in Copied :
        LET name  == AssetName(p)
            entry == assets[name]
        IN  /\ AssetsDir \o Slash \o name = p
            /\ Dir(entry) = Dir(name)
            /\ IsFingerprintOf(Base(entry), Base(name), Digest(fs.files[p]))
            /\ fs.files[p] = Image =>
                  SubSeq(Base(entry), DigestAt(Base(name)),
                         DigestAt(Base(name)) + 6)
                      = <<"6", "1", "0", "5", "d", "6", "c">>
            /\ IsFile(fs, OutputDir \o Slash \o AssetsDir \o Slash \o entry)
            /\ fs.files[OutputDir \o Slash \o AssetsDir \o Slash \o entry]
                  = fs.files[p]
            /\ Asset(assets, name) = Slash \o AssetsDir \o Slash \o entry
            /\ IsFile(fs, OutputDir \o Asset(assets, name))

\* a build has copied a file in a sub-directory, a file without extension
\* and the script a command generated, and has returned nil
C12_Witness ==
    /\ buildpc = "returned"
    /\ result = Nil
    /\ Join(Join(AssetsDir, NameD), NameIP) \in Copied
    /\ Join(AssetsDir, NameN) \in Copied
    /\ Join(AssetsDir, NameG) \in Copied

(***************************************************************************)
(* Properties of the public-files phase                                    *)
(***************************************************************************)
\* the path of p relative to the public-files directory
PublicRel(p) == SubSeq(p, Len(PublicDir) + 2, Len(p))

\* the render loop of this build created the file of this output path
RenderCreated(rel) ==
    \E i \in DOMAIN trace :
        trace[i].ev \in {"render", "panic"} /\ trace[i].path = rel

\* the directories of the public tree are in the output tree, the
\* directory itself is not an entry of it
DirsMirrored ==
    /\ \A d \in fs.dirs :
          (IsUnder(d, PublicDir) /\ d # PublicDir) =>
              IsDirectory(fs, OutputDir \o Slash \o PublicRel(d))
    /\ ~Exists(fs, OutputDir \o Slash \o PublicDir)

\* a Build has returned nil and there is a public-files directory
BuiltWithPublic ==
    /\ buildpc = "returned"
    /\ result = Nil
    /\ Exists(fs, PublicDir)

\* C13 as stated: after a successful Build every public file is in the
\* output tree at the same relative path with the same bytes, every
\* sub-directory is mirrored and the directory itself is not copied.
C13_PublicMirrored ==
    BuiltWithPublic =>
        /\ \A p \in FilesUnder(fs, PublicDir) :
              /\ IsFile(fs, OutputDir \o Slash \o PublicRel(p))
              /\ fs.files[OutputDir \o Slash \o PublicRel(p)] = fs.files[p]
        /\ DirsMirrored

\* C13 as amended: after a successful Build every public file is in the
\* output tree at the same relative path, with the same bytes unless the
\* render loop, which runs later, created the file of a renderer registered
\* for that same path; every sub-directory is mirrored and the directory
\* itself is not copied.
C13_PublicMirroredUnlessRendered ==
    BuiltWithPublic =>
        /\ \A p \in FilesUnder(fs, PublicDir) :
              /\ IsFile(fs, OutputDir \o Slash \o PublicRel(p))
              /\ ~RenderCreated(PublicRel(p)) =>
                    fs.files[OutputDir \o Slash \o PublicRel(p)] = fs.files[p]
              /\ RenderCreated(PublicRel(p)) => PublicRel(p) \in DOMAIN renderers
        /\ DirsMirrored

\* a public tree with a sub-directory has been mirrored by a Build that
\* also ran renderers
C13_Witness ==
    /\ BuiltWithPublic
    /\ IsFile(fs, Join(Join(PublicDir, NameS), NameK))
    /\ IsFile(fs, Join(Join(OutputDir, NameS), NameK))
    /\ IsFile(fs, Join(OutputDir, NameRT))
    /\ renderers # Empty

(***************************************************************************)
(* Missing source directories                                              *)
(***************************************************************************)
\* the step leaves the output tree, the asset table, the result and the
\* events of the build as they are
WritesNothing ==
    /\ fs' = fs
    /\ assets' = assets
    /\ result' = result
    /\ trace' = trace
    /\ written' = written

\* C14: a missing assets directory or a missing public-files directory is a
\* silent no-op: the phase that finds its directory missing writes nothing,
\* adds no asset-table entry, returns no error, and Build is at the next
\* phase.
C14_MissingDirIsNoOp ==
    [][ /\ (buildpc = "assets" /\ ~Exists(fs, AssetsDir)) =>
              (buildpc' = "public" /\ WritesNothing)
        /\ (buildpc = "public" /\ ~Exists(fs, PublicDir)) =>
              (buildpc' = "render" /\ WritesNothing) ]_vars

\* a Build with neither directory has gone through both phases and
\* returned nil
C14_Witness ==
    /\ buildpc = "returned"
    /\ result = Nil
    /\ ~Exists(fs, AssetsDir)
    /\ ~Exists(fs, PublicDir)
    /\ assets = Empty
    /\ Exists(fs, OutputDir)

(***************************************************************************)
(* Asset lookups                                                           *)
(***************************************************************************)
\* the events of renderers that came back from their calls of Asset
Returned == {i \in DOMAIN trace : trace[i].ev = "render"}

\* the URL Asset would return for a name without an entry
EmptyURL == Slash \o AssetsDir \o Slash

\* C15: Asset never returns a path for a name that is not in the asset
\* table: every renderer that came back from its calls of Asset asked only
\* for names of the table, and no page in the output tree embeds the URL of
\* a missing entry.
C15_UnregisteredAssetFailsLoudly ==
    /\ \A i \in Returned : Lookups(trace[i].cmd) \subseteq DOMAIN assets
    /\ \A p \in DOMAIN fs.files :
          IsUnder(p, OutputDir) =>
              fs.files[p] # <<"<">> \o EmptyURL \o <<">">>

\* a renderer has asked Asset for a name that is not in the table
C15_Witness ==
    /\ buildpc = "panicked"
    /\ trace # <<>>
    /\ trace[Len(trace)].ev = "panic"
    /\ \E name \in Lookups(trace[Len(trace)].cmd) :
          name \notin DOMAIN assets

(***************************************************************************)
(* Repeated builds                                                         *)
(***************************************************************************)
\* a Build has returned nil after an earlier Build on the same Site did,
\* and the assets directory holds what it held when this Build was called
RebuiltUnchanged ==
    /\ buildpc = "returned"
    /\ result = Nil
    /\ prev.ok
    /\ Contents(fs, AssetsDir) = prev.src

\* C16: fingerprinting is idempotent across builds: a second successful
\* Build with the assets directory unchanged leaves the same files below
\* the assets directory of the output tree and the same asset table as the
\* Build before it.
C16_FingerprintIdempotent ==
    RebuiltUnchanged =>
        /\ assets = prev.table
        /\ FilesUnder(fs, Join(OutputDir, AssetsDir)) = prev.out

\* a second Build has fingerprinted the same assets again
C16_Witness ==
    /\ RebuiltUnchanged
    /\ builds = 2
    /\ NameIP \in DOMAIN assets
    /\ NameN \in DOMAIN assets
    /\ prev.out # {}

(***************************************************************************)
(* Renderer registration and invocation                                    *)
(***************************************************************************)
\* the events of the render loop for a path: render was called for it
Attempts(path) ==
    {i \in DOMAIN trace :
        /\ trace[i].ev \in {"rmkdir", "create", "panic", "render"}
        /\ trace[i].path = path}

\* among them, those where the renderer itself was called
Invocations(path) ==
    {i \in Attempts(path) : trace[i].ev \in {"panic", "render"}}

\* the render loop of this Build has been entered and left, by return or by
\* a panic
RenderPhaseOver ==
    \/ buildpc = "panicked"
    \/ buildpc = "returned" /\ result = Nil

\* C17 as stated: every registered path has the renderer of its last
\* registration, and the render phase of a Build invokes that renderer
\* exactly once for every registered path.
C17_EveryRendererInvokedOnce ==
    /\ renderers = lastRender
    /\ RenderPhaseOver =>
          \A path \in DOMAIN renderers :
              /\ Cardinality(Invocations(path)) = 1
              /\ \A i \in Invocations(path) : trace[i].cmd = renderers[path]

\* C17 as amended: every registered path has the renderer of its last
\* registration; the render phase of a Build calls render at most once for
\* a path, with that renderer; when Build returns from the render loop it
\* has called render exactly once for every registered path, and invoked
\* the renderer unless the directory or the file of the path could not be
\* created.
C17_EveryPathAttemptedOnce ==
    /\ renderers = lastRender
    /\ \A path \in RenderPaths :
          /\ Cardinality(Attempts(path)) <= 1
          /\ \A i \in Attempts(path) :
                /\ path \in DOMAIN renderers
                /\ trace[i].cmd = renderers[path]
    /\ (buildpc = "returned" /\ result = Nil) =>
          \A path \in DOMAIN renderers :
              /\ Cardinality(Attempts(path)) = 1
              /\ \A i \in Attempts(path) :
                    trace[i].ev \in {"rmkdir", "create"} \/ i \in Invocations(path)
              /\ Cardinality(Invocations(path)) <= 1

\* a path was registered twice with different renderers, and a Build has
\* run the renderers of two paths and returned
C17_Witness ==
    /\ buildpc = "returned"
    /\ result = Nil
    /\ Cardinality(DOMAIN renderers) = 2
    /\ replaced
    /\ \A path \in DOMAIN renderers : Cardinality(Invocations(path)) = 1

(***************************************************************************)
(* Panics of renderers                                                     *)
(***************************************************************************)
\* a renderer of this Build has panicked in Asset
Panicked == \E i \in DOMAIN trace : trace[i].ev = "panic"

\* C18: a renderer's lookup of a missing asset is not isolated like a
\* renderer's error: once it has panicked nothing of the Build runs any
\* more, so the panic is the last event, the renderers the loop has not
\* reached are never invoked, and Build has not returned nil.
C18_PanicPropagates ==
    Panicked =>
        /\ trace[Len(trace)].ev = "panic"
        /\ buildpc = "panicked"
        /\ result # Nil
        /\ \A path \in todo : Attempts(path) = {}
        /\ \A path \in DOMAIN renderers :
              Attempts(path) = {} => path \in todo

\* a renderer has panicked while another path was still to be rendered
C18_Witness ==
    /\ Panicked
    /\ todo # {}
    /\ \E path \in DOMAIN renderers : Attempts(path) = {}

(***************************************************************************)
(* Frame of Build                                                          *)
(***************************************************************************)
\* C19 as stated: once New has returned, no step adds, removes or changes
\* an entry of the asset table, of the renderer mapping or of the command
\* sequence.
C19_ReadOnlyAfterNew ==
    [][newpc = "returned" =>
          /\ assets' = assets
          /\ renderers' = renderers
          /\ commands' = commands]_vars

\* C19 as amended: the renderer mapping and the command sequence are
\* changed only by the configurers New drains and never by Build; the asset
\* table is never changed by New and is changed by Build only in its asset
\* phase, where copying a file sets the entry of that file's name and
\* leaves every other entry as it is; it is read-only from the end of the
\* asset phase on.
C19_OnlyAssetPhaseWritesTable ==
    [][/\ newpc = "returned" =>
             /\ renderers' = renderers
             /\ commands' = commands
       /\ assets' # assets =>
             /\ newpc = "returned"
             /\ buildpc = "assets_walk"
             /\ walk # <<>>
             /\ DOMAIN assets' = DOMAIN assets \cup {AssetName(Head(walk))}
             /\ \A k \in DOMAIN assets :
                   k # AssetName(Head(walk)) => assets'[k] = assets[k]]_vars

\* a Site with renderers and commands has been built and its asset phase
\* has written two entries of the table
C19_Witness ==
    /\ buildpc = "returned"
    /\ result = Nil
    /\ renderers # Empty
    /\ commands # <<>>
    /\ Cardinality(DOMAIN assets) >= 2

(***************************************************************************)
(* The asset table across builds                                           *)
(***************************************************************************)
\* C20: after a successful Build every entry name -> path of the asset
\* table refers to a file that exists below the assets directory of the
\* output tree and holds the current bytes of the asset file name: no entry
\* is stale and no fingerprinted asset has been overwritten.
C20_NoStaleEntries ==
    (buildpc = "returned" /\ result = Nil) =>
        \A name \in DOMAIN assets :
            /\ IsFile(fs, Join(AssetsDir, name))
            /\ IsFile(fs, Join(Join(OutputDir, AssetsDir), assets[name]))
            /\ fs.files[Join(Join(OutputDir, AssetsDir), assets[name])]
                  = fs.files[Join(AssetsDir, name)]

====
